---- MODULE Spec2Model ----
(***************************************************************************)
(* Fibonacci.c: the n-th Fibonacci number by binary exponentiation of the  *)
(* symmetric matrix | 1 1 | , kept as three values (a, b, c) of type       *)
(*                  | 1 0 |                                                *)
(* `real'.  A `real' is modelled as a binary floating-point number with a  *)
(* W-bit mantissa: a non-negative integer is held exactly while it fits in *)
(* W bits and is rounded to nearest, ties to even, beyond that.  Integers  *)
(* are kept as little-endian sequences of LimbBits-bit limbs, so that the  *)
(* 53-, 64- and 113-bit mantissas of the source's table are modelled at    *)
(* their real width.                                                       *)
(***************************************************************************)
EXTENDS Integers, Sequences, FiniteSets

VARIABLES W,        \* mantissa width of `real' in this build
          pc,       \* position of the program
          index0,   \* main's index: the argument of the current call
          index,    \* fibonacci's parameter index (decremented, shifted)
          mat,      \* real mat[3]
          ret,      \* real ret[3]
          val,      \* main's val: the value the last call returned
          iter,     \* loop iterations started in the current call
          nsq,      \* calls of matrix_to2 in the current call
          nmul,     \* calls of matrix_multiply in the current call
          ncalls,   \* calls of fibonacci completed
          seen,     \* test driver: index -> value its first call returned
          out       \* unit driver: real out[3]

vars == <<W, pc, index0, index, mat, ret, val, iter, nsq, nmul, ncalls, seen, out>>

-----------------------------------------------------------------------------
(* Bounds of the model *)

MaxIndex == 94      \* main passes an index in -MaxNeg .. MaxIndex
MaxNeg == 3
MaxBits == 72       \* a real of more than MaxBits bits overflows to infinity
MaxCount == 10      \* iter, nsq and nmul saturate at MaxCount
MaxCalls == 3       \* the test driver makes at most MaxCalls calls
MaxCallIndex == 5   \* ... each with an index in 0 .. MaxCallIndex
MaxPow == 6         \* the unit driver's operands: the base matrix to 1 .. MaxPow
MaxEntry == 2       \* ... and every triple over 0 .. MaxEntry

-----------------------------------------------------------------------------
(* Non-negative integers of any size *)

LimbBits == 15
Base == 2^LimbBits

Min(i, j) == IF i < j THEN i ELSE j

Front(s) == SubSeq(s, 1, Len(s) - 1)

RECURSIVE Norm(_)
Norm(s) ==
  IF s = <<>> THEN s
  ELSE IF s[Len(s)] = 0 THEN Norm(Front(s)) ELSE s

RECURSIVE FromInt(_)
FromInt(n) == IF n = 0 THEN <<>> ELSE <<n % Base>> \o FromInt(n \div Base)

RECURSIVE AddC(_, _, _)
AddC(x, y, c) ==
  IF x = <<>> /\ y = <<>> THEN (IF c = 0 THEN <<>> ELSE <<c>>)
  ELSE LET xd == IF x = <<>> THEN 0 ELSE Head(x)
           yd == IF y = <<>> THEN 0 ELSE Head(y)
           t  == xd + yd + c
       IN  <<t % Base>> \o AddC(IF x = <<>> THEN x ELSE Tail(x),
                                IF y = <<>> THEN y ELSE Tail(y),
                                t \div Base)

BigAdd(x, y) == AddC(x, y, 0)

RECURSIVE MulC(_, _, _)
MulC(x, d, c) ==
  IF x = <<>> THEN (IF c = 0 THEN <<>> ELSE <<c>>)
  ELSE LET t == Head(x) * d + c
       IN  <<t % Base>> \o MulC(Tail(x), d, t \div Base)

RECURSIVE BigMul(_, _)
BigMul(x, y) ==
  IF x = <<>> \/ y = <<>> THEN <<>>
  ELSE LET r == BigMul(x, Tail(y))
       IN  BigAdd(Norm(MulC(x, Head(y), 0)),
                  IF r = <<>> THEN r ELSE <<0>> \o r)

RECURSIVE BigLess(_, _)
BigLess(x, y) ==
  IF Len(x) # Len(y) THEN Len(x) < Len(y)
  ELSE IF x = <<>> THEN FALSE
  ELSE IF x[Len(x)] # y[Len(y)] THEN x[Len(x)] < y[Len(y)]
  ELSE BigLess(Front(x), Front(y))

BigLeq(x, y) == x = y \/ BigLess(x, y)

RECURSIVE SmallBits(_)
SmallBits(d) == IF d = 0 THEN 0 ELSE 1 + SmallBits(d \div 2)

BitLen(x) == IF x = <<>> THEN 0 ELSE LimbBits * (Len(x) - 1) + SmallBits(x[Len(x)])

\* 2^k
Pow2(k) ==
  [i \in 1..(k \div LimbBits + 1) |->
     IF i = k \div LimbBits + 1 THEN 2^(k % LimbBits) ELSE 0]

\* x mod 2^k
LowBits(x, k) ==
  Norm([i \in 1..Len(x) |->
     IF i <= k \div LimbBits THEN x[i]
     ELSE IF i = k \div LimbBits + 1 THEN x[i] % 2^(k % LimbBits)
     ELSE 0])

\* x - (x mod 2^k)
HighBits(x, k) ==
  Norm([i \in 1..Len(x) |->
     IF i <= k \div LimbBits THEN 0
     ELSE IF i = k \div LimbBits + 1 THEN x[i] - (x[i] % 2^(k % LimbBits))
     ELSE x[i]])

\* bit k of x
Bit(x, k) ==
  IF k \div LimbBits + 1 > Len(x) THEN 0
  ELSE (x[k \div LimbBits + 1] \div 2^(k % LimbBits)) % 2

-----------------------------------------------------------------------------
(* The type real *)

\* mantissa widths of the source's table: double, x87 long double, __float128
Widths == {53, 64, 113}

Zero == <<>>
One == <<1>>
Inf == <<-1>>
NaN == <<-2>>

\* x rounded to w significant bits, to nearest, ties to even
Round(x, w) ==
  LET k == BitLen(x) - w
  IN  IF k <= 0 THEN x
      ELSE LET low  == LowBits(x, k)
               high == HighBits(x, k)
               half == Pow2(k - 1)
           IN  IF BigLess(half, low) \/ (low = half /\ Bit(x, k) = 1)
               THEN BigAdd(high, Pow2(k))
               ELSE high

\* Fl with the leading bit of the mantissa not counted
Fl_Narrow(x) ==
  LET r == Round(x, W - 1)
  IN  IF BitLen(r) > MaxBits THEN Inf ELSE r

\* the real that an exact result x is stored as
Fl(x) ==
  LET r == Round(x, W)
  IN  IF BitLen(r) > MaxBits THEN Inf ELSE r

\* x * y in real
rmul(x, y) ==
  IF x = NaN \/ y = NaN THEN NaN
  ELSE IF x = Inf \/ y = Inf
       THEN (IF x = Zero \/ y = Zero THEN NaN ELSE Inf)
  ELSE Fl(BigMul(x, y))

\* x + y in real
radd(x, y) ==
  IF x = NaN \/ y = NaN THEN NaN
  ELSE IF x = Inf \/ y = Inf THEN Inf
  ELSE Fl(BigAdd(x, y))

-----------------------------------------------------------------------------
(* The matrix operations *)

\* matrix_to2 with b*b in place of b*c
matrix_to2_WrongCross(m) ==
  LET a  == m[1]
      b  == m[2]
      b2 == rmul(b, b)
      c  == m[3]
  IN  << radd(rmul(a, a), b2),
         radd(rmul(a, b), b2),
         radd(b2, rmul(c, c)) >>

matrix_to2(m) ==
  LET a  == m[1]
      b  == m[2]
      b2 == rmul(b, b)
      c  == m[3]
  IN  << radd(rmul(a, a), b2),
         radd(rmul(a, b), rmul(b, c)),
         radd(b2, rmul(c, c)) >>

\* matrix_multiply with c*e in place of c*f
matrix_multiply_WrongCorner(in1, in2) ==
  LET a  == in1[1]
      b  == in1[2]
      c  == in1[3]
      d  == in2[1]
      e  == in2[2]
      be == rmul(b, e)
  IN  << radd(rmul(a, d), be),
         radd(rmul(a, e), rmul(b, in2[3])),
         radd(be, rmul(c, e)) >>

\* matrix_multiply writing z = b*d + c*e where y is due
matrix_multiply_SkippedEntry(in1, in2) ==
  LET a  == in1[1]
      b  == in1[2]
      c  == in1[3]
      d  == in2[1]
      e  == in2[2]
      f  == in2[3]
      be == rmul(b, e)
  IN  << radd(rmul(a, d), be),
         radd(rmul(b, d), rmul(c, e)),
         radd(be, rmul(c, f)) >>

\* matrix_multiply with out aliasing in1 and in1[0] read after out[0] is
\* written
matrix_multiply_Aliased(in1, in2) ==
  LET b  == in1[2]
      c  == in1[3]
      d  == in2[1]
      e  == in2[2]
      f  == in2[3]
      be == rmul(b, e)
      x  == radd(rmul(in1[1], d), be)
  IN  << x,
         radd(rmul(x, e), rmul(b, f)),
         radd(be, rmul(c, f)) >>

\* the three values written to out; every input is read before out is written
matrix_multiply(in1, in2) ==
  LET a  == in1[1]
      b  == in1[2]
      c  == in1[3]
      d  == in2[1]
      e  == in2[2]
      f  == in2[3]
      be == rmul(b, e)
  IN  << radd(rmul(a, d), be),
         radd(rmul(a, e), rmul(b, f)),
         radd(be, rmul(c, f)) >>

\* no shift at all
ShiftRight_None(x) == x

\* a shift that rounds toward zero
ShiftRight_TowardZero(x) == IF x < 0 THEN -((-x) \div 2) ELSE x \div 2

\* index >> 1 of a long, sign-extending
ShiftRight(x) == x \div 2

\* index & 1 in two's complement
LowBit(x) == x % 2

BaseMatrix == <<One, One, Zero>>

-----------------------------------------------------------------------------
(* fibonacci(index) *)

NoneSeen == [n \in 0..MaxCallIndex |-> NaN]

Init ==
  /\ W \in Widths
  /\ pc = "idle"
  /\ index0 = 0
  /\ index = 0
  /\ mat = BaseMatrix
  /\ ret = BaseMatrix
  /\ val = Zero
  /\ iter = 0
  /\ nsq = 0
  /\ nmul = 0
  /\ ncalls = 0
  /\ seen = NoneSeen
  /\ out = BaseMatrix

\* fibonacci without index--
Call_NoDecrement(n) ==
  /\ pc = "idle"
  /\ index0' = n
  /\ mat' = BaseMatrix
  /\ ret' = BaseMatrix
  /\ iter' = 0
  /\ nsq' = 0
  /\ nmul' = 0
  /\ IF n = 0 THEN /\ val' = Zero
                   /\ index' = n
                   /\ pc' = "done"
     ELSE IF n = 1 THEN /\ val' = One
                        /\ index' = n
                        /\ pc' = "done"
     ELSE /\ val' = val
          /\ index' = n
          /\ pc' = "test"
  /\ UNCHANGED <<W, ncalls, seen, out>>

\* fibonacci with ret kept from call to call (static real ret[3])
Call_StaticRet(n) ==
  /\ pc = "idle"
  /\ index0' = n
  /\ mat' = BaseMatrix
  /\ ret' = ret
  /\ iter' = 0
  /\ nsq' = 0
  /\ nmul' = 0
  /\ IF n = 0 THEN /\ val' = Zero
                   /\ index' = n
                   /\ pc' = "done"
     ELSE IF n = 1 THEN /\ val' = One
                        /\ index' = n
                        /\ pc' = "done"
     ELSE /\ val' = val
          /\ index' = n - 1
          /\ pc' = "test"
  /\ UNCHANGED <<W, ncalls, seen, out>>

\* entry of fibonacci(n): the initialisers, the two base cases, index--
Call(n) ==
  /\ pc = "idle"
  /\ index0' = n
  /\ mat' = BaseMatrix
  /\ ret' = BaseMatrix
  /\ iter' = 0
  /\ nsq' = 0
  /\ nmul' = 0
  /\ IF n = 0 THEN /\ val' = Zero
                   /\ index' = n
                   /\ pc' = "done"
     ELSE IF n = 1 THEN /\ val' = One
                        /\ index' = n
                        /\ pc' = "done"
     ELSE /\ val' = val
          /\ index' = n - 1
          /\ pc' = "test"
  /\ UNCHANGED <<W, ncalls, seen, out>>

\* if (index & 1) matrix_multiply(ret, ret, mat);
Multiply ==
  /\ pc = "test"
  /\ LowBit(index) = 1
  /\ ret' = matrix_multiply(ret, mat)
  /\ nmul' = Min(nmul + 1, MaxCount)
  /\ iter' = Min(iter + 1, MaxCount)
  /\ pc' = "shift"
  /\ UNCHANGED <<W, index0, index, mat, val, nsq, ncalls, seen, out>>

SkipMultiply ==
  /\ pc = "test"
  /\ LowBit(index) = 0
  /\ iter' = Min(iter + 1, MaxCount)
  /\ pc' = "shift"
  /\ UNCHANGED <<W, index0, index, mat, ret, val, nsq, nmul, ncalls, seen, out>>

\* the zero test ahead of the shift: if (!index) break; index >>= 1;
Shift_TestFirst ==
  /\ pc = "shift"
  /\ IF index = 0 THEN /\ index' = index
                       /\ val' = ret[2]
                       /\ pc' = "done"
     ELSE /\ index' = ShiftRight(index)
          /\ val' = val
          /\ pc' = "square"
  /\ UNCHANGED <<W, index0, mat, ret, iter, nsq, nmul, ncalls, seen, out>>

\* index >>= 1; if (!index) break;  ...  return ret[1];
Shift ==
  /\ pc = "shift"
  /\ index' = ShiftRight(index)
  /\ IF index' = 0 THEN /\ val' = ret[2]
                        /\ pc' = "done"
     ELSE /\ val' = val
          /\ pc' = "square"
  /\ UNCHANGED <<W, index0, mat, ret, iter, nsq, nmul, ncalls, seen, out>>

\* matrix_to2(mat);
Square ==
  /\ pc = "square"
  /\ mat' = matrix_to2(mat)
  /\ nsq' = Min(nsq + 1, MaxCount)
  /\ pc' = "test"
  /\ UNCHANGED <<W, index0, index, ret, val, iter, nmul, ncalls, seen, out>>

\* main: index = atol(argv[1]); val = fibonacci(index);
MainCall ==
  /\ ncalls = 0
  /\ \E n \in (-MaxNeg)..MaxIndex : Call(n)

\* main: printf("%Lf", val); return 0;
Output ==
  /\ pc = "done"
  /\ pc' = "exit"
  /\ ncalls' = ncalls + 1
  /\ UNCHANGED <<W, index0, index, mat, ret, val, iter, nsq, nmul, seen, out>>

Next == MainCall \/ Multiply \/ SkipMultiply \/ Shift \/ Square \/ Output

Spec == Init /\ [][Next]_vars

InLoop == pc \in {"test", "shift", "square"}

\* a step of the loop: from a position of the loop to another position
Advance == InLoop /\ pc' \in {"test", "shift", "square", "done"} /\ pc' # pc

\* A sequential program takes its next step: the position of a call that is
\* in its loop does not stay put.  Every position of the loop has a step
\* (the guards of Multiply and SkipMultiply are complementary, Shift and
\* Square have none) and every step of the loop changes pc, so this is weak
\* fairness of the loop's steps, stated on pc alone.
FairSpec == Spec /\ WF_pc(Advance)

-----------------------------------------------------------------------------
(* A test driver: fibonacci called again and again, first results recorded *)

TestCall ==
  /\ ncalls < MaxCalls
  /\ \E n \in 0..MaxCallIndex : Call(n)

Record ==
  /\ pc = "done"
  /\ seen' = IF seen[index0] = NaN THEN [seen EXCEPT ![index0] = val] ELSE seen
  /\ ncalls' = ncalls + 1
  /\ pc' = "idle"
  /\ UNCHANGED <<W, index0, index, mat, ret, val, iter, nsq, nmul, out>>

NextCalls == TestCall \/ Multiply \/ SkipMultiply \/ Shift \/ Square \/ Record

SpecCalls == Init /\ [][NextCalls]_vars

-----------------------------------------------------------------------------
(* The reference: the Fibonacci sequence and the full 2x2 product *)

\* <<F(k), F(k+1)>>  |->  <<F(k+1), F(k+2)>>
FibStep(p) == <<p[2], BigAdd(p[1], p[2])>>

\* FibStep applied n times to p.  The test p = <<>> never succeeds: it has
\* p evaluated before the recursion descends.
RECURSIVE FibSteps(_, _)
FibSteps(p, n) ==
  IF n = 0 \/ p = <<>> THEN p
  ELSE IF n = 1 THEN FibStep(p)
  ELSE FibSteps(FibSteps(p, n \div 2), n - n \div 2)

\* F(0) = 0, F(1) = 1, F(k+2) = F(k) + F(k+1)
F(k) == FibSteps(<<Zero, One>>, k)[1]

\* the base matrix to the k-th power, k >= 1, as the source's part d gives it
Power(k) == <<F(k + 1), F(k), F(k - 1)>>

\* | a b |   | d e |     | x y |
\* | b c | * | e f |  =  | z w |   in exact arithmetic, as <<x, y, z, w>>
FullProduct(in1, in2) ==
  LET a == in1[1]
      b == in1[2]
      c == in1[3]
      d == in2[1]
      e == in2[2]
      f == in2[3]
  IN  << BigAdd(BigMul(a, d), BigMul(b, e)),
         BigAdd(BigMul(a, e), BigMul(b, f)),
         BigAdd(BigMul(b, d), BigMul(c, e)),
         BigAdd(BigMul(b, e), BigMul(c, f)) >>

\* the symmetric matrix (a, b, c) written out as <<a, b, b, c>>
Full(m) == <<m[1], m[2], m[2], m[3]>>

\* | p1 p2 |   | 1 1 |
\* | p3 p4 | * | 1 0 |
TimesBase(p) == << BigAdd(p[1], p[2]), p[1], BigAdd(p[3], p[4]), p[3] >>

\* p multiplied by the base matrix n times
RECURSIVE TimesBaseN(_, _)
TimesBaseN(p, n) ==
  IF n = 0 \/ p = <<>> THEN p
  ELSE IF n = 1 THEN TimesBase(p)
  ELSE TimesBaseN(TimesBaseN(p, n \div 2), n - n \div 2)

\* the base matrix multiplied by itself, k factors
NaivePower(k) == TimesBaseN(Full(BaseMatrix), k - 1)

RECURSIVE Log2(_)
Log2(e) == IF e <= 1 THEN 0 ELSE 1 + Log2(e \div 2)

RECURSIVE Popcount(_)
Popcount(e) == IF e = 0 THEN 0 ELSE (e % 2) + Popcount(e \div 2)

\* x < 2^W: the real holds x exactly
Fits(x) == BitLen(x) <= W

-----------------------------------------------------------------------------
(* A unit driver: the two matrix operations applied to given operands *)

\* (a, b, c) with small entries
Triples ==
  { <<FromInt(a), FromInt(b), FromInt(c)>> : a, b, c \in 0..MaxEntry }

\* the three values kept of a symmetric <<a, b, b, c>>
Sym(p) == <<p[1], p[2], p[4]>>

\* two large powers, whose squares and products are rounded or overflow
LargePowers == {MaxIndex \div 2, MaxIndex}

Operands ==
  Triples \cup { Sym(NaivePower(k)) : k \in (1..MaxPow) \cup LargePowers }

InitUnit ==
  /\ W \in Widths
  /\ pc = "unit"
  /\ index0 = 0
  /\ index = 0
  /\ mat \in Operands
  /\ ret \in Operands
  /\ val = Zero
  /\ iter = 0
  /\ nsq = 0
  /\ nmul = 0
  /\ ncalls = 0
  /\ seen = NoneSeen
  /\ out = BaseMatrix

\* matrix_multiply(out, mat, mat); matrix_to2(mat);
UnitSquare ==
  /\ pc = "unit"
  /\ out' = matrix_multiply(mat, mat)
  /\ mat' = matrix_to2(mat)
  /\ pc' = "squared"
  /\ UNCHANGED <<W, index0, index, ret, val, iter, nsq, nmul, ncalls, seen>>

\* matrix_multiply(out, ret, mat);
UnitMultiply ==
  /\ pc = "unit"
  /\ out' = matrix_multiply(ret, mat)
  /\ pc' = "multiplied"
  /\ UNCHANGED <<W, index0, index, mat, ret, val, iter, nsq, nmul, ncalls, seen>>

NextUnit == UnitSquare \/ UnitMultiply

SpecUnit == InitUnit /\ [][NextUnit]_vars

-----------------------------------------------------------------------------
(* Properties of fibonacci, checked under Spec and FairSpec *)

\* C1: for every index n >= 0, in a build whose real is exact over the whole
\* range, fibonacci(n) returns F(n) of the reference sequence F(0) = 0,
\* F(1) = 1, F(n) = F(n-1) + F(n-2); the listed values are returned in
\* every build.
C1_ReturnsFibonacci ==
  (pc = "done" /\ index0 >= 0) =>
     /\ W = 113 => val = F(index0)
     /\ index0 = 0 => val = Zero
     /\ index0 = 1 => val = FromInt(1)
     /\ index0 = 2 => val = FromInt(1)
     /\ index0 = 3 => val = FromInt(2)
     /\ index0 = 10 => val = FromInt(55)
     /\ index0 = 20 => val = FromInt(6765)
     /\ (W = 113 /\ index0 >= 2) =>
           val = BigAdd(F(index0 - 1), F(index0 - 2))

C1_Witness ==
  pc = "done" /\ W = 113 /\ index0 = 20 /\ val = FromInt(6765)

\* C2 as stated: the loop entered with exponent e = index - 1 ends with ret
\* equal to the base matrix multiplied out to the e-th power.
C2_Original ==
  (pc = "done" /\ index0 >= 2 /\ Fits(F(index0 + 1))) =>
     Full(ret) = NaivePower(index0 - 1)

\* C2 amended: the loop entered with exponent e >= 1 ends with ret equal to
\* the base matrix multiplied out to the power e + 1.
C2_LoopPower ==
  (pc = "done" /\ index0 >= 2 /\ Fits(F(index0 + 1))) =>
     Full(ret) = NaivePower(index0)

C2_Witness ==
  pc = "done" /\ index0 = 16 /\ Full(ret) = NaivePower(16)

\* the exact products the next matrix operation forms
Products ==
  IF pc = "test" /\ LowBit(index) = 1
  THEN { BigMul(ret[1], mat[1]), BigMul(ret[2], mat[2]), BigMul(ret[1], mat[2]),
         BigMul(ret[2], mat[3]), BigMul(ret[3], mat[3]) }
  ELSE IF pc = "square"
  THEN { BigMul(mat[1], mat[1]), BigMul(mat[2], mat[2]), BigMul(mat[1], mat[2]),
         BigMul(mat[2], mat[3]), BigMul(mat[3], mat[3]) }
  ELSE {}

\* while F(n+1) < 2^W, every stored value and every product is an integer
\* of at most F(n+1)
C6_Bounded ==
  (index0 >= 2 /\ (InLoop \/ pc = "done")) =>
     LET bound == F(index0 + 1)
     IN  Fits(bound) =>
           \A x \in {mat[1], mat[2], mat[3], ret[1], ret[2], ret[3]}
                       \cup Products :
              x \notin {Inf, NaN} /\ BigLeq(x, bound)

\* the documented limits: F(n+1) < 2^53 up to n = 77, < 2^64 up to n = 92
C6_Documented ==
  index0 >= 0 =>
     /\ W = 53 => (Fits(F(index0 + 1)) <=> index0 <= 77)
     /\ W = 64 => (Fits(F(index0 + 1)) <=> index0 <= 92)

C9_AtTest ==
  (pc = "test" /\ index0 >= 2 /\ Fits(F(index0 + 1))) =>
     LET e == index0 - 1
         i == iter
     IN  /\ index = e \div (2^i)
         /\ mat = Power(2^i)
         /\ ret = Power(1 + (e % (2^i)))

C9_AtExit ==
  (pc = "done" /\ index0 >= 2 /\ Fits(F(index0 + 1))) => ret = Power(index0)

C9_Steps ==
  /\ (pc = "test" /\ pc' = "shift" /\ LowBit(index) = 1
        /\ index0 >= 2 /\ Fits(F(index0 + 1))) =>
          /\ Full(ret') = FullProduct(ret, mat)
          /\ mat' = mat
  /\ (pc = "test" /\ pc' = "shift" /\ LowBit(index) = 0) =>
          /\ ret' = ret
          /\ mat' = mat
  /\ (pc = "square" /\ pc' = "test") => ret' = ret

\* C9: the loop invariant at every loop head and at exit, and the effect
\* of each step on the other matrix.
C9_LoopInvariant == [](C9_AtTest /\ C9_AtExit) /\ [][C9_Steps]_vars

C9_Witness ==
  /\ pc = "test" /\ index0 = 94 /\ iter = 6 /\ W = 113
  /\ index = 1 /\ mat = Power(64) /\ ret = Power(30)

\* C10: fibonacci(n), n >= 2, e = n-1, makes floor(log2 e) calls of
\* matrix_to2 and popcount(e) calls of matrix_multiply in floor(log2 e) + 1
\* iterations; mat is squared only while a set bit of e remains, so it ends
\* as the base matrix to the power 2^floor(log2 e).
C10_Counts ==
  /\ (pc = "done" /\ index0 >= 2) =>
        LET e == index0 - 1
        IN  /\ nsq = Log2(e)
            /\ nmul = Popcount(e)
            /\ nmul <= Log2(e) + 1
            /\ iter = Log2(e) + 1
            /\ Fits(F(index0 + 1)) => mat = Power(2^Log2(e))
  /\ (pc = "square" /\ index0 >= 2) => index >= 1

C10_Witness ==
  pc = "done" /\ index0 = 94 /\ nsq = 6 /\ nmul = 5 /\ iter = 7

\* C3: fibonacci(n) terminates for every n >= 0: n = 0 and n = 1 return
\* without entering the loop, and for n >= 2 every shift makes the
\* remaining exponent strictly smaller, never negative, until it is zero
\* and the loop exits.
C3_BaseCases ==
  (pc = "idle" /\ pc' # "idle" /\ index0' \in {0, 1}) =>
     (pc' = "done" /\ iter' = 0)

C3_Decreases ==
  (pc = "shift" /\ index0 >= 0) =>
     /\ index' < index
     /\ index' >= 0
     /\ (index' = 0 <=> pc' = "done")

\* C3: the base cases return at once, every shift decreases the remaining
\* exponent, and every call with index >= 0 that enters the loop returns.
C3_Terminates ==
  /\ [][C3_BaseCases /\ C3_Decreases]_vars
  /\ (InLoop /\ index0 >= 0) ~> (pc = "done")

C3_Witness ==
  pc = "done" /\ index0 = 94 /\ iter = 7 /\ index = 0

\* C4: for a negative index nothing stops the call before the loop, the
\* remaining exponent stays negative, reaches -1 and stays -1, and the
\* call never returns.
C4_Enters ==
  (pc = "idle" /\ pc' # "idle" /\ index0' < 0) =>
     (pc' = "test" /\ index' = index0' - 1)

C4_Stuck ==
  (InLoop /\ index0 < 0 /\ index = -1) => (InLoop' /\ index' = -1)

\* C4: a call with a negative index enters the loop, never leaves it, and
\* its remaining exponent becomes -1 and stays -1.
C4_NegativeLoops ==
  /\ [](index0 < 0 => (InLoop /\ index < 0))
  /\ [][C4_Enters /\ C4_Stuck]_vars
  /\ (index0 < 0) ~> [](index = -1 /\ InLoop)

C4_Witness ==
  pc = "test" /\ index0 = -3 /\ index = -1 /\ iter = MaxCount

-----------------------------------------------------------------------------
(* Properties of repeated calls, checked under SpecCalls *)

\* C7: whatever calls came before, fibonacci(n) returns what the first call
\* fibonacci(n) returned: every call starts from mat = ret = (1, 1, 0) and
\* resets its loop state, so nothing an earlier call wrote is read.
C7_SameAsFirst ==
  (pc = "done" /\ seen[index0] # NaN) => val = seen[index0]

C7_FreshStart ==
  (pc = "idle" /\ pc' # "idle") => (mat' = BaseMatrix /\ ret' = BaseMatrix)

\* C7: a call returns what the first call with its index returned, and
\* every call starts from freshly initialised matrices.
C7_Repeatable == []C7_SameAsFirst /\ [][C7_FreshStart]_vars

C7_Witness ==
  /\ pc = "done" /\ ncalls = 2 /\ index0 = 5
  /\ seen[5] = FromInt(5) /\ val = FromInt(5)
  /\ seen[4] # NaN

-----------------------------------------------------------------------------
(* Properties of the matrix operations, checked under SpecUnit *)

\* C5: matrix_to2 applied to M leaves the three values that
\* matrix_multiply(out, M, M) writes, for every power M of the base matrix
\* and every triple of small entries.
C5_SquareIsMultiply ==
  pc = "squared" => mat = out

C5_Witness ==
  pc = "squared" /\ mat = Power(2 * MaxPow) /\ out = Power(2 * MaxPow)

\* the same where the squares are rounded: at 53 bits the square of the base
\* matrix to the 47 holds F(95), F(94), F(93), all beyond 2^53
C5_WitnessRounded ==
  /\ pc = "squared" /\ W = 53 /\ mat = out
  /\ mat[3] \notin {Inf, NaN} /\ mat[3] # Power(2 * (MaxIndex \div 2))[3]

\* the entry z = b*d + c*e of the full product that matrix_multiply skips
Skipped(in1, in2) == FullProduct(in1, in2)[3]

\* C8: for operands that are the base matrix to the i and to the j, the
\* skipped entry b*d + c*e equals the computed a*e + b*f, and the three
\* values written are the full product, the base matrix to the i+j; for
\* other symmetric operands, such as (1,0,0) and (0,1,0), the two entries
\* differ.
C8_PowersCommute ==
  pc = "multiplied" =>
     /\ \A i, j \in 1..MaxPow :
           (Full(ret) = NaivePower(i) /\ Full(mat) = NaivePower(j)) =>
              /\ Skipped(ret, mat) = out[2]
              /\ Full(out) = FullProduct(ret, mat)
              /\ Full(out) = NaivePower(i + j)
              /\ out = Power(i + j)
     /\ (ret = <<One, Zero, Zero>> /\ mat = <<Zero, One, Zero>>) =>
           Skipped(ret, mat) # out[2]

C8_Witness ==
  /\ pc = "multiplied"
  /\ Full(ret) = NaivePower(3) /\ Full(mat) = NaivePower(MaxPow)
  /\ out = Power(3 + MaxPow) /\ Skipped(ret, mat) = out[2]

====
